---- MODULE Spec2Model ----
(***************************************************************************)
(* A model of wallet-tool.cpp: the command line (parseArgs,                *)
(* validateOptions, execute, main), the tag scanner dumpAllKeys with its   *)
(* stdio calls (fopen, fread, fseek, feof, fclose), the hex renderer tohex *)
(* and the file copy removePassword.                                       *)
(*                                                                         *)
(* File bytes are 0..255; a char buffer holds signed chars (-128..127, as  *)
(* on the x86 builds the README compiles for); a cell of malloc'ed storage *)
(* that was never written holds Indeterminate.                             *)
(***************************************************************************)
EXTENDS Integers, Sequences, FiniteSets, TLC

VARIABLES
    argv,           \* argv[1..argc-1] of main
    env,            \* the process environment: home set, Desktop present, destination writable
    fs,             \* the file system: path -> [exists, data]
    origin,         \* history: the file system and the environment the run started in
    pc,             \* the control location of main
    argi,           \* parseArgs: int i
    walletPath,     \* WalletTool::walletPath
    dbType,         \* WalletTool::dbType
    hexKey,         \* WalletTool::hexKey
    removePass,     \* WalletTool::removePass
    dumpKeys,       \* WalletTool::dumpKeys
    validated,      \* history: validateOptions has returned normally in this run
    wallet,         \* dumpAllKeys: FILE* wallet, [state, pos, eof]
    mkey,           \* dumpAllKeys: char mkey[5]
    i,              \* dumpAllKeys: int i
    found_mkey,     \* dumpAllKeys: bool found_mkey
    mkey_offset,    \* dumpAllKeys: int mkey_offset of the master-key branch
    mkey_data,      \* dumpAllKeys: char* mkey_data
    ckey_data,      \* dumpAllKeys: char* ckey_data
    ckey_encrypted, \* dumpAllKeys: char* ckey_encrypted
    hits,           \* history: the offsets at which the check-key pass matched, in order
    iters,          \* history: the loop bodies run by the current pass
    held,           \* history: the fopen/malloc and fclose/free calls made, by resource
    out,            \* std::cout, a sequence of lines
    err,            \* std::cerr, a sequence of lines
    exitCode,       \* the value main returns (-1 while running)
    hexIn,          \* a char buffer handed to tohex
    hexRes          \* what tohex returned for it

vars == <<argv, env, fs, origin, pc, argi, walletPath, dbType, hexKey, removePass, dumpKeys,
          validated, wallet, mkey, i, found_mkey, mkey_offset, mkey_data, ckey_data,
          ckey_encrypted, hits, iters, held, out, err, exitCode, hexIn, hexRes>>

cliVars == <<argi, walletPath, dbType, hexKey, removePass, dumpKeys, validated>>
scanVars == <<wallet, mkey, i, found_mkey, mkey_offset, mkey_data, ckey_data,
              ckey_encrypted, hits, iters, held>>
hexVars == <<hexIn, hexRes>>
worldVars == <<argv, env, origin>>

(***************************************************************************)
(* Bounds of the model.                                                    *)
(***************************************************************************)
MaxLen == 132       \* the longest container
MaxMkeys == 2       \* "mkey" tags written into a container
MaxCkeys == 2       \* "ckey" tags written into a container
MaxHexLen == 3      \* the longest buffer handed to tohex on its own
MaxCopyLen == 2     \* the longest source file of the copy runs
MaxOpts == 4        \* the option groups of a command line

(***************************************************************************)
(* Program constants.                                                      *)
(***************************************************************************)
TagLen == 4             \* fread(mkey, 1, 4, wallet)
TagBufLen == 5          \* char mkey[5]
MkeyBack == 72          \* fseek(wallet, mkey_offset - 72, SEEK_SET)
MkeyLen == 48           \* malloc(48), fread(mkey_data, 1, 48, wallet)
CkeyBack == 52          \* fseek(wallet, mkey_offset - 52, SEEK_SET)
CkeyWin == 123          \* malloc(123), fread(ckey_data, 1, 123, wallet)
CkeyLen == 48           \* malloc(48), memcpy(ckey_encrypted, ckey_data, 48)
CkeySkip == 3           \* i += 3
KeyChars == 10          \* isValidHexString: str.length() != 10
Indeterminate == 256    \* a cell of malloc'ed storage never written

MkeyTag == <<109, 107, 101, 121>>   \* "mkey"
CkeyTag == <<99, 107, 101, 121>>    \* "ckey"

Min(a, b) == IF a < b THEN a ELSE b
Max(a, b) == IF a > b THEN a ELSE b
Range(s) == {s[k] : k \in DOMAIN s}

\* A byte of a file read into a char.
ToChar(b) == IF b >= 128 THEN b - 256 ELSE b

Line(pre, body) == [pre |-> pre, body |-> body]

(***************************************************************************)
(* tohex                                                                   *)
(***************************************************************************)
HexDigits == <<"0", "1", "2", "3", "4", "5", "6", "7",
               "8", "9", "a", "b", "c", "d", "e", "f">>

\* operator<<(int) under std::hex: the digits of n, no leading zeros.
RECURSIVE HexOfInt(_)
HexOfInt(n) ==
    IF n < 16 THEN <<HexDigits[n + 1]>>
    ELSE HexOfInt(n \div 16) \o <<HexDigits[(n % 16) + 1]>>

\* std::setw(w) with std::setfill(fill): pad on the left up to w characters.
RECURSIVE SetW(_, _, _)
SetW(s, w, fill) == IF Len(s) >= w THEN s ELSE SetW(<<fill>> \o s, w, fill)

\* static_cast<int>(ptr[i]) & 0xff
MaskSevenBits(c) == c % 128
Mask(c) == c % 256

HexByteNoPad(c) == HexOfInt(Mask(c))
HexByte(c) == SetW(HexOfInt(Mask(c)), 2, "0")

RECURSIVE tohexFrom(_, _, _)
tohexFrom(ptr, k, length) ==
    IF k >= length THEN <<>>
    ELSE HexByte(ptr[k + 1]) \o tohexFrom(ptr, k + 1, length)

tohex(ptr, length) == tohexFrom(ptr, 0, length)

(***************************************************************************)
(* stdio on the wallet handle                                              *)
(***************************************************************************)
NoFile == [exists |-> FALSE, data |-> <<>>]
FileOf(path) == IF path \in DOMAIN fs THEN fs[path] ELSE NoFile

Closed == [state |-> "null", pos |-> 0, eof |-> FALSE]

\* The bytes fread can deliver: at most n, from the position to end-of-file.
Avail(f, data, n) == Min(n, Max(0, Len(data) - f.pos))

\* fread(buf, 1, n, f): the count, the buffer and the handle afterwards.  The
\* first count cells of buf are overwritten and the rest keep what they held.
fread(buf, n, f, data) ==
    LET got == Avail(f, data, n) IN
    [n |-> got,
     buf |-> [k \in DOMAIN buf |->
                IF k <= got THEN ToChar(data[f.pos + k]) ELSE buf[k]],
     f |-> [f EXCEPT !.pos = f.pos + got, !.eof = f.eof \/ got < n]]

\* fseek(f, off, SEEK_SET): a negative offset fails with EINVAL and leaves the
\* position where it was; a successful seek clears the end-of-file indicator.
fseek(f, off) ==
    IF off < 0 THEN f ELSE [f EXCEPT !.pos = off, !.eof = FALSE]

\* strncmp(buf, tag, 4) == 0
TagIs(buf, tag) == \A k \in 1..TagLen : buf[k] = tag[k]

malloc(n) == [k \in 1..n |-> Indeterminate]
Freed == <<>>

\* What dumpAllKeys acquires: the FILE* of fopen and the pointers of its mallocs.
Resources == {"wallet", "mkey_data", "ckey_data", "ckey_encrypted"}
NoneHeld == [acquired |-> [r \in Resources |-> 0], released |-> [r \in Resources |-> 0]]

\* fopen or malloc returned the resources in names; fclose or free was called on them.
Acquire(h, names) ==
    [h EXCEPT !.acquired = [r \in Resources |-> IF r \in names THEN @[r] + 1 ELSE @[r]]]
Release(h, names) ==
    [h EXCEPT !.released = [r \in Resources |-> IF r \in names THEN @[r] + 1 ELSE @[r]]]

\* What a read of the buffer yields when its indeterminate cells hold g.
Resolve(buf, g) == [k \in DOMAIN buf |-> IF buf[k] = Indeterminate THEN g ELSE buf[k]]
GarbageBytes == {0, -86}
GarbageOf(buf) == IF Indeterminate \in Range(buf) THEN GarbageBytes ELSE {0}

(***************************************************************************)
(* The command line                                                        *)
(***************************************************************************)
\* The characters of the strings the model's command lines are built from.
Chars(str) ==
    CASE str = "0123456789" -> <<"0", "1", "2", "3", "4", "5", "6", "7", "8", "9">>
      [] str = "00ffAB12cd" -> <<"0", "0", "f", "f", "A", "B", "1", "2", "c", "d">>
      [] str = "0123456g89" -> <<"0", "1", "2", "3", "4", "5", "6", "g", "8", "9">>
      [] str = "01234" -> <<"0", "1", "2", "3", "4">>
      [] str = "wallet.dat" -> <<"w", "a", "l", "l", "e", "t", ".", "d", "a", "t">>
      [] str = "SQLite" -> <<"S", "Q", "L", "i", "t", "e">>
      [] str = "BerkelyDB" -> <<"B", "e", "r", "k", "e", "l", "y", "D", "B">>
      [] str = "Oracle" -> <<"O", "r", "a", "c", "l", "e">>
      [] str = "--help" -> <<"-", "-", "h", "e", "l", "p">>
      [] str = "--wallet" -> <<"-", "-", "w", "a", "l", "l", "e", "t">>
      [] str = "--type" -> <<"-", "-", "t", "y", "p", "e">>
      [] str = "--KEY" -> <<"-", "-", "K", "E", "Y">>
      [] str = "--remove-pass" ->
            <<"-", "-", "r", "e", "m", "o", "v", "e", "-", "p", "a", "s", "s">>
      [] str = "--dump-all-keys" ->
            <<"-", "-", "d", "u", "m", "p", "-", "a", "l", "l", "-", "k", "e", "y", "s">>
      [] OTHER -> <<>>

HexChars == {"0", "1", "2", "3", "4", "5", "6", "7", "8", "9",
             "a", "b", "c", "d", "e", "f", "A", "B", "C", "D", "E", "F"}

isValidHexString(str) ==
    /\ Len(Chars(str)) = KeyChars
    /\ \A k \in 1..Len(Chars(str)) : Chars(str)[k] \in HexChars

\* A std::runtime_error leaving parseArgs or execute: main catches it, writes
\* "Error: " and what() to std::cerr and returns 1.
Throw(what) ==
    /\ pc' = "exit"
    /\ err' = Append(err, Line("Error: ", what))
    /\ exitCode' = 1

argc == Len(argv) + 1

\* The head of parseArgs.
ParseArgsEnter ==
    /\ pc = "main"
    /\ IF argc = 1
       THEN /\ Throw(<<"No options provided. Use --help for usage information.">>)
            /\ UNCHANGED argi
       ELSE /\ pc' = "parseArgs"
            /\ argi' = 1
            /\ UNCHANGED <<err, exitCode>>
    /\ UNCHANGED <<walletPath, dbType, hexKey, removePass, dumpKeys, validated>>
    /\ UNCHANGED <<worldVars, fs, scanVars, hexVars, out>>

InLoop == pc = "parseArgs" /\ argi < argc

\* arg == "--help": showHelp() and return, without validateOptions().
ParseHelp ==
    /\ InLoop
    /\ argv[argi] = "--help"
    /\ out' = Append(out, Line("Wallet Tool Usage:", <<>>))
    /\ pc' = "execute"
    /\ UNCHANGED <<cliVars, worldVars, fs, scanVars, hexVars, err, exitCode>>

ParseWallet ==
    /\ InLoop
    /\ argv[argi] = "--wallet"
    /\ IF argi + 1 >= argc
       THEN /\ Throw(<<"Wallet path not specified">>)
            /\ UNCHANGED <<argi, walletPath>>
       ELSE /\ walletPath' = argv[argi + 1]
            /\ argi' = argi + 2
            /\ UNCHANGED <<pc, err, exitCode>>
    /\ UNCHANGED <<dbType, hexKey, removePass, dumpKeys, validated>>
    /\ UNCHANGED <<worldVars, fs, scanVars, hexVars, out>>

ParseType ==
    /\ InLoop
    /\ argv[argi] = "--type"
    /\ IF argi + 1 >= argc
       THEN /\ Throw(<<"Database type not specified">>)
            /\ UNCHANGED <<argi, dbType>>
       ELSE /\ dbType' = argv[argi + 1]
            /\ IF argv[argi + 1] # "BerkelyDB" /\ argv[argi + 1] # "SQLite"
               THEN /\ Throw(<<"Invalid database type. Must be 'BerkelyDB' or 'SQLite'">>)
                    /\ UNCHANGED argi
               ELSE /\ argi' = argi + 2
                    /\ UNCHANGED <<pc, err, exitCode>>
    /\ UNCHANGED <<walletPath, hexKey, removePass, dumpKeys, validated>>
    /\ UNCHANGED <<worldVars, fs, scanVars, hexVars, out>>

ParseKey ==
    /\ InLoop
    /\ argv[argi] = "--KEY"
    /\ IF argi + 1 >= argc
       THEN /\ Throw(<<"KEY not specified">>)
            /\ UNCHANGED <<argi, hexKey>>
       ELSE /\ hexKey' = argv[argi + 1]
            /\ IF ~isValidHexString(argv[argi + 1])
               THEN /\ Throw(<<"Invalid KEY format. Must be a 5-byte hexadecimal string">>)
                    /\ UNCHANGED argi
               ELSE /\ argi' = argi + 2
                    /\ UNCHANGED <<pc, err, exitCode>>
    /\ UNCHANGED <<walletPath, dbType, removePass, dumpKeys, validated>>
    /\ UNCHANGED <<worldVars, fs, scanVars, hexVars, out>>

ParseRemovePass ==
    /\ InLoop
    /\ argv[argi] = "--remove-pass"
    /\ removePass' = TRUE
    /\ argi' = argi + 1
    /\ UNCHANGED <<walletPath, dbType, hexKey, dumpKeys, validated>>
    /\ UNCHANGED <<worldVars, fs, pc, scanVars, hexVars, out, err, exitCode>>

ParseDumpKeys ==
    /\ InLoop
    /\ argv[argi] = "--dump-all-keys"
    /\ dumpKeys' = TRUE
    /\ argi' = argi + 1
    /\ UNCHANGED <<walletPath, dbType, hexKey, removePass, validated>>
    /\ UNCHANGED <<worldVars, fs, pc, scanVars, hexVars, out, err, exitCode>>

Options == {"--help", "--wallet", "--type", "--KEY", "--remove-pass", "--dump-all-keys"}

ParseUnknown ==
    /\ InLoop
    /\ argv[argi] \notin Options
    /\ Throw(<<"Unknown option: ", argv[argi]>>)
    /\ UNCHANGED <<cliVars, worldVars, fs, scanVars, hexVars, out>>

\* What validateOptions throws for the option set, <<>> when it returns.
validateOptions ==
    IF walletPath = "" THEN <<"Wallet path must be specified">>
    ELSE IF dumpKeys
    THEN IF dbType # "" \/ hexKey # "" \/ removePass
         THEN <<"--dump-all-keys can only be used with --wallet">>
         ELSE <<>>
    ELSE IF removePass
    THEN IF dbType = "" \/ hexKey = ""
         THEN <<"--remove-pass requires --wallet, --type, and --KEY options">>
         ELSE <<>>
    ELSE <<"Either --dump-all-keys or --remove-pass must be specified">>

\* The end of parseArgs' loop: validateOptions(), then main calls execute().
ParseArgsValidate ==
    /\ pc = "parseArgs"
    /\ argi >= argc
    /\ IF validateOptions # <<>>
       THEN /\ Throw(validateOptions)
            /\ UNCHANGED validated
       ELSE /\ validated' = TRUE
            /\ pc' = "execute"
            /\ UNCHANGED <<err, exitCode>>
    /\ UNCHANGED <<argi, walletPath, dbType, hexKey, removePass, dumpKeys>>
    /\ UNCHANGED <<worldVars, fs, scanVars, hexVars, out>>

execute ==
    /\ pc = "execute"
    /\ IF dumpKeys THEN pc' = "dumpAllKeys" /\ UNCHANGED exitCode
       ELSE IF removePass THEN pc' = "removePassword" /\ UNCHANGED exitCode
       ELSE pc' = "exit" /\ exitCode' = 0
    /\ UNCHANGED <<cliVars, worldVars, fs, scanVars, hexVars, out, err>>

(***************************************************************************)
(* dumpAllKeys                                                             *)
(***************************************************************************)
Data == FileOf(walletPath).data

\* fopen(walletPath.c_str(), "rb") and the declarations before the first loop.
DumpOpen ==
    /\ pc = "dumpAllKeys"
    /\ IF ~FileOf(walletPath).exists
       THEN /\ Throw(<<"Can't open file ", walletPath>>)
            /\ UNCHANGED scanVars
       ELSE /\ wallet' = [state |-> "open", pos |-> 0, eof |-> FALSE]
            /\ mkey' = malloc(TagBufLen)
            /\ i' = 0
            /\ found_mkey' = FALSE
            /\ mkey_data' = malloc(MkeyLen)
            /\ iters' = 0
            /\ held' = Acquire(held, {"wallet", "mkey_data"})
            /\ pc' = "mkeyLoop"
            /\ UNCHANGED <<mkey_offset, ckey_data, ckey_encrypted, hits, err, exitCode>>
    /\ UNCHANGED <<cliVars, worldVars, fs, hexVars, out>>

\* The fread of a loop condition: fread(mkey, 1, 4, wallet).
ReadTag == fread(mkey, TagLen, wallet, Data)

\* fread(mkey, 1, 4, wallet) == 4 && !feof(wallet) && !found_mkey
MkeyCondNoStop == ReadTag.n = TagLen /\ ~ReadTag.f.eof
MkeyCond == ReadTag.n = TagLen /\ ~ReadTag.f.eof /\ ~found_mkey

\* fread(mkey, 1, 4, wallet) == 4 && !feof(wallet)
CkeyCond == ReadTag.n = TagLen /\ ~ReadTag.f.eof

\* mkey_offset - 72
MkeySeekShort(off) == off - MkeyLen
MkeySeek(off) == off - MkeyBack

\* mkey_offset - 52
CkeySeekShort(off) == off - CkeyLen
CkeySeek(off) == off - CkeyBack

\* i += 3; i++ after a "ckey" match.
CkeyAdvanceToWindow(off) == off - CkeyBack
CkeyAdvanceFar(off) == off + TagLen + 1
CkeyAdvance(off) == off + CkeySkip + 1

\* One run of the first loop's body.
MkeyIter ==
    /\ pc = "mkeyLoop"
    /\ MkeyCond
    /\ mkey' = ReadTag.buf
    /\ IF TagIs(ReadTag.buf, MkeyTag)
       THEN LET got == fread(mkey_data, MkeyLen, fseek(ReadTag.f, MkeySeek(i)), Data) IN
            /\ mkey_offset' = i
            /\ mkey_data' = got.buf
            /\ \E g \in GarbageOf(got.buf) :
                 out' = out \o <<Line("Mkey_encrypted: ", tohex(Resolve(got.buf, g), MkeyLen)),
                                 Line("", <<>>)>>
            /\ found_mkey' = TRUE
            /\ wallet' = fseek(got.f, i + 1)
       ELSE /\ wallet' = fseek(ReadTag.f, i + 1)
            /\ UNCHANGED <<mkey_offset, mkey_data, out, found_mkey>>
    /\ i' = i + 1
    /\ iters' = iters + 1
    /\ UNCHANGED <<ckey_data, ckey_encrypted, hits, held>>
    /\ UNCHANGED <<cliVars, worldVars, fs, pc, hexVars, err, exitCode>>

\* The first loop's condition is false.
MkeyExit ==
    /\ pc = "mkeyLoop"
    /\ ~MkeyCond
    /\ mkey' = ReadTag.buf
    /\ wallet' = ReadTag.f
    /\ pc' = "mkeyDone"
    /\ UNCHANGED <<i, found_mkey, mkey_offset, mkey_data, ckey_data, ckey_encrypted,
                   hits, iters, held>>
    /\ UNCHANGED <<cliVars, worldVars, fs, hexVars, out, err, exitCode>>

\* The early return without its fclose.
NoMasterKeyLeak ==
    /\ pc = "mkeyDone"
    /\ ~found_mkey
    /\ out' = Append(out, Line("There is no Master Key in the file", <<>>))
    /\ mkey_data' = Freed
    /\ held' = Release(held, {"mkey_data"})
    /\ pc' = "exit"
    /\ exitCode' = 0
    /\ UNCHANGED <<wallet, mkey, i, found_mkey, mkey_offset, ckey_data, ckey_encrypted,
                   hits, iters>>
    /\ UNCHANGED <<cliVars, worldVars, fs, hexVars, err>>

\* The early return without its message.
NoMasterKeySilent ==
    /\ pc = "mkeyDone"
    /\ ~found_mkey
    /\ mkey_data' = Freed
    /\ wallet' = [wallet EXCEPT !.state = "closed"]
    /\ held' = Release(held, {"mkey_data", "wallet"})
    /\ pc' = "exit"
    /\ exitCode' = 0
    /\ UNCHANGED <<mkey, i, found_mkey, mkey_offset, ckey_data, ckey_encrypted, hits, iters>>
    /\ UNCHANGED <<cliVars, worldVars, fs, hexVars, out, err>>

\* The message without the early return: the check-key pass follows.
NoMasterKeyContinue ==
    /\ pc = "mkeyDone"
    /\ ~found_mkey
    /\ out' = Append(out, Line("There is no Master Key in the file", <<>>))
    /\ wallet' = fseek(wallet, 0)
    /\ i' = 0
    /\ ckey_data' = malloc(CkeyWin)
    /\ ckey_encrypted' = malloc(CkeyLen)
    /\ held' = Acquire(held, {"ckey_data", "ckey_encrypted"})
    /\ iters' = 0
    /\ pc' = "ckeyLoop"
    /\ UNCHANGED <<mkey, found_mkey, mkey_offset, mkey_data, hits>>
    /\ UNCHANGED <<cliVars, worldVars, fs, hexVars, err, exitCode>>

\* if (!found_mkey) { ...; return; } and main's return 0.
NoMasterKey ==
    /\ pc = "mkeyDone"
    /\ ~found_mkey
    /\ out' = Append(out, Line("There is no Master Key in the file", <<>>))
    /\ mkey_data' = Freed
    /\ wallet' = [wallet EXCEPT !.state = "closed"]
    /\ held' = Release(held, {"mkey_data", "wallet"})
    /\ pc' = "exit"
    /\ exitCode' = 0
    /\ UNCHANGED <<mkey, i, found_mkey, mkey_offset, ckey_data, ckey_encrypted, hits, iters>>
    /\ UNCHANGED <<cliVars, worldVars, fs, hexVars, err>>

\* The allocations without the rewind: the second loop goes on from where the
\* first one stopped.
CkeyStartNoRewind ==
    /\ pc = "mkeyDone"
    /\ found_mkey
    /\ ckey_data' = malloc(CkeyWin)
    /\ ckey_encrypted' = malloc(CkeyLen)
    /\ held' = Acquire(held, {"ckey_data", "ckey_encrypted"})
    /\ iters' = 0
    /\ pc' = "ckeyLoop"
    /\ UNCHANGED <<wallet, i, mkey, found_mkey, mkey_offset, mkey_data, hits>>
    /\ UNCHANGED <<cliVars, worldVars, fs, hexVars, out, err, exitCode>>

\* The rewind and the allocations before the second loop.
CkeyStart ==
    /\ pc = "mkeyDone"
    /\ found_mkey
    /\ wallet' = fseek(wallet, 0)
    /\ i' = 0
    /\ ckey_data' = malloc(CkeyWin)
    /\ ckey_encrypted' = malloc(CkeyLen)
    /\ held' = Acquire(held, {"ckey_data", "ckey_encrypted"})
    /\ iters' = 0
    /\ pc' = "ckeyLoop"
    /\ UNCHANGED <<mkey, found_mkey, mkey_offset, mkey_data, hits>>
    /\ UNCHANGED <<cliVars, worldVars, fs, hexVars, out, err, exitCode>>

\* memcpy(ckey_encrypted, ckey_data, 48)
memcpy(dst, src, n) == [k \in DOMAIN dst |-> IF k <= n THEN src[k] ELSE dst[k]]

\* One run of the second loop's body.
CkeyIter ==
    /\ pc = "ckeyLoop"
    /\ CkeyCond
    /\ mkey' = ReadTag.buf
    /\ IF TagIs(ReadTag.buf, CkeyTag)
       THEN LET got == fread(ckey_data, CkeyWin, fseek(ReadTag.f, CkeySeek(i)), Data)
                enc == memcpy(ckey_encrypted, got.buf, CkeyLen)
            IN  /\ ckey_data' = got.buf
                /\ ckey_encrypted' = enc
                /\ \E g \in GarbageOf(enc) :
                     out' = Append(out, Line("encrypted ckey: ",
                                             tohex(Resolve(enc, g), CkeyLen)))
                /\ hits' = Append(hits, i)
                /\ i' = CkeyAdvance(i)
                /\ wallet' = fseek(got.f, CkeyAdvance(i))
       ELSE /\ i' = i + 1
            /\ wallet' = fseek(ReadTag.f, i + 1)
            /\ UNCHANGED <<ckey_data, ckey_encrypted, out, hits>>
    /\ iters' = iters + 1
    /\ UNCHANGED <<found_mkey, mkey_offset, mkey_data, held>>
    /\ UNCHANGED <<cliVars, worldVars, fs, pc, hexVars, err, exitCode>>

\* The second loop's condition is false.
CkeyExit ==
    /\ pc = "ckeyLoop"
    /\ ~CkeyCond
    /\ mkey' = ReadTag.buf
    /\ wallet' = ReadTag.f
    /\ pc' = "ckeyDone"
    /\ UNCHANGED <<i, found_mkey, mkey_offset, mkey_data, ckey_data, ckey_encrypted,
                   hits, iters, held>>
    /\ UNCHANGED <<cliVars, worldVars, fs, hexVars, out, err, exitCode>>

\* The frees and fclose at the end of dumpAllKeys, and main's return 0.
DumpRelease ==
    /\ pc = "ckeyDone"
    /\ mkey_data' = Freed
    /\ ckey_data' = Freed
    /\ ckey_encrypted' = Freed
    /\ wallet' = [wallet EXCEPT !.state = "closed"]
    /\ held' = Release(held, Resources)
    /\ pc' = "exit"
    /\ exitCode' = 0
    /\ UNCHANGED <<mkey, i, found_mkey, mkey_offset, hits, iters>>
    /\ UNCHANGED <<cliVars, worldVars, fs, hexVars, out, err>>

(***************************************************************************)
(* removePassword                                                          *)
(***************************************************************************)
WalletName == "wallet.dat"
DestName == "Desktop/wallet.dat"
Paths == {WalletName, DestName}

\* From fs::exists(walletPath) to destPath: the source must exist, HOME must be
\* set, and the Desktop directory is created when it is absent.
RemoveStart ==
    /\ pc = "removePassword"
    /\ IF ~FileOf(walletPath).exists
       THEN /\ Throw(<<"Source wallet file does not exist: ", walletPath>>)
            /\ UNCHANGED env
       ELSE IF ~env.home
       THEN /\ Throw(<<"Cannot determine home directory">>)
            /\ UNCHANGED env
       ELSE IF ~env.desktop /\ ~env.writable
       THEN /\ Throw(<<"filesystem error: cannot create directories">>)
            /\ UNCHANGED env
       ELSE /\ env' = [env EXCEPT !.desktop = TRUE]
            /\ pc' = "removeOpen"
            /\ UNCHANGED <<err, exitCode>>
    /\ UNCHANGED <<argv, origin, fs, cliVars, scanVars, hexVars, out>>

\* std::ifstream src(walletPath) and std::ofstream dst(destPath): opening the
\* destination creates it or truncates it.
RemoveOpen ==
    /\ pc = "removeOpen"
    /\ IF ~env.writable
       THEN /\ Throw(<<"Failed to process wallet file: ", "Cannot create destination file">>)
            /\ UNCHANGED fs
       ELSE /\ fs' = [fs EXCEPT ![DestName] = [exists |-> TRUE, data |-> <<>>]]
            /\ pc' = "removeCopy"
            /\ UNCHANGED <<err, exitCode>>
    /\ UNCHANGED <<worldVars, cliVars, scanVars, hexVars, out>>

\* dst << src.rdbuf() sets failbit on dst when it inserts no character.
InsertedGood(n) == n > 0

\* A copy that consults the database type: only an SQLite wallet is streamed.
RemoveCopySQLiteOnly ==
    /\ pc = "removeCopy"
    /\ LET data == IF dbType = "SQLite" THEN FileOf(walletPath).data ELSE <<>> IN
       /\ fs' = [fs EXCEPT ![DestName] = [exists |-> TRUE, data |-> data]]
       /\ IF ~InsertedGood(Len(data))
          THEN /\ Throw(<<"Failed to process wallet file: ",
                          "Error occurred while writing destination file">>)
               /\ UNCHANGED out
          ELSE /\ out' = Append(out,
                   Line("The new wallet.dat file with the password removed was saved to: ",
                        <<DestName>>))
               /\ pc' = "exit"
               /\ exitCode' = 0
               /\ UNCHANGED err
    /\ UNCHANGED <<worldVars, cliVars, scanVars, hexVars>>

\* dst << src.rdbuf(), the dst.good() test and the confirmation line.
RemoveCopy ==
    /\ pc = "removeCopy"
    /\ fs' = [fs EXCEPT ![DestName] = [exists |-> TRUE, data |-> FileOf(walletPath).data]]
    /\ IF ~InsertedGood(Len(FileOf(walletPath).data))
       THEN /\ Throw(<<"Failed to process wallet file: ",
                       "Error occurred while writing destination file">>)
            /\ UNCHANGED out
       ELSE /\ out' = Append(out,
                Line("The new wallet.dat file with the password removed was saved to: ",
                     <<DestName>>))
            /\ pc' = "exit"
            /\ exitCode' = 0
            /\ UNCHANGED err
    /\ UNCHANGED <<worldVars, cliVars, scanVars, hexVars>>

(***************************************************************************)
(* tohex on a buffer of its own                                            *)
(***************************************************************************)
AllChars == -128..127
SampleChars == {-128, -1, 0, 10, 127}

\* A caller fills one more char of the buffer.
HexPush ==
    /\ pc = "hexBuild"
    /\ Len(hexIn) < MaxHexLen
    /\ \E c \in (IF hexIn = <<>> THEN AllChars ELSE SampleChars) :
          hexIn' = Append(hexIn, c)
    /\ UNCHANGED <<worldVars, fs, pc, cliVars, scanVars, hexRes, out, err, exitCode>>

\* tohex(ptr, length) on the buffer.
HexCall ==
    /\ pc = "hexBuild"
    /\ hexRes' = tohex(hexIn, Len(hexIn))
    /\ pc' = "hexDone"
    /\ UNCHANGED <<worldVars, fs, cliVars, scanVars, hexIn, out, err, exitCode>>

(***************************************************************************)
(* The containers of the scan runs                                         *)
(***************************************************************************)
\* The byte a container holds at offset k where no tag was written.
Filler(k) == (k * 7 + 3) % 251

PutTag(data, pos, tag) ==
    [k \in DOMAIN data |->
        IF k - 1 >= pos /\ k - 1 < pos + TagLen THEN tag[k - pos] ELSE data[k]]

RECURSIVE PutTags(_, _, _)
PutTags(data, positions, tag) ==
    IF positions = {} THEN data
    ELSE LET p == CHOOSE q \in positions : TRUE
         IN  PutTags(PutTag(data, p, tag), positions \ {p}, tag)

Container(len, mk, ck) ==
    PutTags(PutTags([k \in 1..len |-> Filler(k - 1)], mk, MkeyTag), ck, CkeyTag)

Lens == {0, TagLen - 1, TagLen, MkeyBack + TagLen, CkeyWin, MaxLen}

Fits(len, cand) == {p \in cand : p >= 0 /\ p + TagLen <= len}
MkeyCand(len) == Fits(len, {0, MkeyBack - 1, MkeyBack, len - TagLen})
CkeyCand(len) ==
    Fits(len, {0, CkeyBack, CkeyBack + TagLen, len - (CkeyWin - CkeyBack),
               len - (CkeyWin - CkeyBack) + 1, len - TagLen})

UpTo(S, n) == {T \in SUBSET S : Cardinality(T) <= n}

Containers ==
    UNION {{Container(len, mk, ck) : mk \in UpTo(MkeyCand(len), MaxMkeys),
                                      ck \in UpTo(CkeyCand(len), MaxCkeys)} : len \in Lens}

DefaultEnv == [home |-> TRUE, desktop |-> TRUE, writable |-> TRUE]

\* A WalletTool just constructed, dumpAllKeys' locals not yet declared, nothing
\* written to the streams.
InitRun ==
    /\ argi = 0
    /\ walletPath = ""
    /\ dbType = ""
    /\ hexKey = ""
    /\ removePass = FALSE
    /\ dumpKeys = FALSE
    /\ validated = FALSE
    /\ wallet = Closed
    /\ mkey = <<>>
    /\ i = 0
    /\ found_mkey = FALSE
    /\ mkey_offset = 0
    /\ mkey_data = <<>>
    /\ ckey_data = <<>>
    /\ ckey_encrypted = <<>>
    /\ hits = <<>>
    /\ iters = 0
    /\ held = NoneHeld
    /\ out = <<>>
    /\ err = <<>>
    /\ exitCode = -1
    /\ origin = [fs |-> fs, env |-> env]

\* wallet-tool --wallet wallet.dat --dump-all-keys, over every container and
\* over a missing wallet file.
Init ==
    /\ argv = <<"--wallet", WalletName, "--dump-all-keys">>
    /\ env = DefaultEnv
    /\ \/ \E c \in Containers :
            fs = [p \in Paths |-> IF p = WalletName
                                  THEN [exists |-> TRUE, data |-> c] ELSE NoFile]
       \/ fs = [p \in Paths |-> NoFile]
    /\ InitRun
    /\ pc = "main"
    /\ hexIn = <<>>
    /\ hexRes = <<>>

Next ==
    \/ ParseArgsEnter
    \/ ParseWallet
    \/ ParseDumpKeys
    \/ ParseArgsValidate
    \/ execute
    \/ DumpOpen
    \/ MkeyIter
    \/ MkeyExit
    \/ NoMasterKey
    \/ CkeyStart
    \/ CkeyIter
    \/ CkeyExit
    \/ DumpRelease

Spec == Init /\ [][Next]_vars

(***************************************************************************)
(* The command-line runs: every command line of up to MaxOpts option       *)
(* groups, over a five-byte wallet file without a tag.                     *)
(***************************************************************************)
OptGroups ==
    {<<"--help">>, <<"--wallet", WalletName>>, <<"--wallet">>,
     <<"--type", "SQLite">>, <<"--type", "Oracle">>,
     <<"--KEY", "0123456789">>, <<"--KEY", "0123456g89">>,
     <<"--remove-pass">>, <<"--dump-all-keys">>}

RECURSIVE ArgLists(_)
ArgLists(n) ==
    IF n = 0 THEN {<<>>}
    ELSE ArgLists(n - 1) \cup {a \o g : a \in ArgLists(n - 1), g \in OptGroups}

CliFs == [p \in Paths |-> IF p = WalletName
                          THEN [exists |-> TRUE, data |-> <<1, 2, 3, 200, 5>>]
                          ELSE NoFile]

CliInit ==
    /\ argv \in ArgLists(MaxOpts)
    /\ env = DefaultEnv
    /\ fs = CliFs
    /\ InitRun
    /\ pc = "main"
    /\ hexIn = <<>>
    /\ hexRes = <<>>

CliNext ==
    \/ ParseArgsEnter
    \/ ParseHelp
    \/ ParseWallet
    \/ ParseType
    \/ ParseKey
    \/ ParseRemovePass
    \/ ParseDumpKeys
    \/ ParseUnknown
    \/ ParseArgsValidate
    \/ execute
    \/ DumpOpen
    \/ MkeyIter
    \/ MkeyExit
    \/ NoMasterKey
    \/ RemoveStart
    \/ RemoveOpen
    \/ RemoveCopy

CliSpec == CliInit /\ [][CliNext]_vars

(***************************************************************************)
(* The copy runs: a valid removal command line over every source file of   *)
(* up to MaxCopyLen bytes, every destination and every environment.        *)
(***************************************************************************)
CopyBytes == {0, 10, 255}

RECURSIVE ByteSeqs(_)
ByteSeqs(n) ==
    IF n = 0 THEN {<<>>}
    ELSE ByteSeqs(n - 1) \cup {Append(b, c) : b \in ByteSeqs(n - 1), c \in CopyBytes}

SourceFiles == {NoFile} \cup {[exists |-> TRUE, data |-> d] : d \in ByteSeqs(MaxCopyLen)}
DestFiles == {NoFile, [exists |-> TRUE, data |-> <<7, 7, 7>>]}

CopyInit ==
    /\ \E w \in {WalletName, DestName}, t \in {"SQLite", "BerkelyDB"},
          k \in {"0123456789", "00ffAB12cd"} :
          argv = <<"--wallet", w, "--type", t, "--KEY", k, "--remove-pass">>
    /\ env \in [home : BOOLEAN, desktop : BOOLEAN, writable : BOOLEAN]
    /\ \E src \in SourceFiles, dst \in DestFiles :
          fs = [p \in Paths |-> IF p = WalletName THEN src ELSE dst]
    /\ InitRun
    /\ pc = "main"
    /\ hexIn = <<>>
    /\ hexRes = <<>>

CopyNext ==
    \/ ParseArgsEnter
    \/ ParseWallet
    \/ ParseType
    \/ ParseKey
    \/ ParseRemovePass
    \/ ParseArgsValidate
    \/ execute
    \/ RemoveStart
    \/ RemoveOpen
    \/ RemoveCopy

CopySpec == CopyInit /\ [][CopyNext]_vars

(***************************************************************************)
(* The tohex runs: every buffer of up to MaxHexLen chars, its first char   *)
(* any char and the others from SampleChars.                               *)
(***************************************************************************)
HexInit ==
    /\ argv = <<>>
    /\ env = DefaultEnv
    /\ fs = [p \in Paths |-> NoFile]
    /\ InitRun
    /\ pc = "hexBuild"
    /\ hexIn = <<>>
    /\ hexRes = <<>>

HexNext ==
    \/ HexPush
    \/ HexCall

HexSpec == HexInit /\ [][HexNext]_vars

(***************************************************************************)
(* What the claims speak of                                                *)
(***************************************************************************)
\* The container of a scan run and the offsets at which a tag occurs in it.
Bytes == fs[WalletName].data
Occ(tag) == {p \in 0..(Len(Bytes) - TagLen) : \A k \in 1..TagLen : Bytes[p + k] = tag[k]}
MinOf(S) == CHOOSE p \in S : \A q \in S : p <= q

RECURSIVE Ascending(_)
Ascending(S) == IF S = {} THEN <<>> ELSE <<MinOf(S)>> \o Ascending(S \ {MinOf(S)})

\* The reference hex encoding of container bytes: two lowercase digits a byte.
RECURSIVE RefHex(_)
RefHex(bytes) ==
    IF bytes = <<>> THEN <<>>
    ELSE <<HexDigits[(Head(bytes) \div 16) + 1], HexDigits[(Head(bytes) % 16) + 1]>>
         \o RefHex(Tail(bytes))

\* The n container bytes from offset start on.
Window(start, n) == SubSeq(Bytes, start + 1, start + n)

LinesOf(stream, pre) == SelectSeq(stream, LAMBDA l : l.pre = pre)
MkeyLines == LinesOf(out, "Mkey_encrypted: ")
CkeyLines == LinesOf(out, "encrypted ckey: ")
NoMkeyLines == LinesOf(out, "There is no Master Key in the file")

\* A scan run that opened its container has returned.
ScanDone == pc = "exit" /\ fs[WalletName].exists

\* Every "ckey" tag has its whole 123-byte window inside the container.
CkeysWellPlaced ==
    \A p \in Occ(CkeyTag) : p >= CkeyBack /\ p - CkeyBack + CkeyWin <= Len(Bytes)

\* The check-key lines the claims expect: one per tag, in offset order.
ExpectedCkeyLines ==
    LET occ == Ascending(Occ(CkeyTag)) IN
    [k \in 1..Len(occ) |->
        Line("encrypted ckey: ", RefHex(Window(occ[k] - CkeyBack, CkeyLen)))]

\* C1: a container with exactly one "mkey" tag, at an offset pos >= 72, yields
\* exactly one "Mkey_encrypted: " line, whose 96 characters are the lowercase hex
\* of the container bytes [pos-72, pos-72+48).
C1_SingleMkeyRecord ==
    (ScanDone /\ Cardinality(Occ(MkeyTag)) = 1 /\ MinOf(Occ(MkeyTag)) >= MkeyBack)
    => /\ MkeyLines = <<Line("Mkey_encrypted: ",
                             RefHex(Window(MinOf(Occ(MkeyTag)) - MkeyBack, MkeyLen)))>>
       /\ Len(MkeyLines[1].body) = 2 * MkeyLen

\* C1's case: the only "mkey" tag is the container's last four bytes, past offset 72.
C1_Witness ==
    /\ ScanDone
    /\ Occ(MkeyTag) = {Len(Bytes) - TagLen}
    /\ Len(Bytes) - TagLen > MkeyBack
    /\ Len(MkeyLines) = 1

C4_Original ==
    /\ found_mkey => mkey_offset >= MkeyBack
    /\ \A k \in 1..Len(hits) :
          hits[k] >= CkeyBack /\ hits[k] - CkeyBack + CkeyWin <= Len(Bytes)

\* C5: a container with no "mkey" tag yields the no-master-key line, no
\* "Mkey_encrypted: " line, no "Error: " line and exit code 0; every completed scan
\* emits exactly one of the two lines.
C5_NoMasterKeyOutcome ==
    ScanDone
    => /\ Occ(MkeyTag) = {}
          => /\ Len(NoMkeyLines) = 1
             /\ MkeyLines = <<>>
             /\ err = <<>>
             /\ exitCode = 0
       /\ Len(MkeyLines) + Len(NoMkeyLines) = 1

\* C5's case: a container shorter than one tag.
C5_Witness ==
    /\ ScanDone
    /\ Len(Bytes) = TagLen - 1
    /\ Len(NoMkeyLines) = 1

\* C10: at most one "Mkey_encrypted: " line is emitted, it comes from the
\* lowest-offset "mkey" tag, and (the window being inside the container) it stays
\* the hex of that tag's window whatever tags follow.
C10_FirstMkeyOnly ==
    /\ Len(MkeyLines) <= 1
    /\ Len(MkeyLines) = 1 <=> found_mkey
    /\ found_mkey
       => /\ Occ(MkeyTag) # {}
          /\ mkey_offset = MinOf(Occ(MkeyTag))
          /\ mkey_offset >= MkeyBack
             => MkeyLines[1].body = RefHex(Window(mkey_offset - MkeyBack, MkeyLen))

\* C10's case: two "mkey" tags, the first past offset 72, and the run complete.
C10_Witness ==
    /\ ScanDone
    /\ Cardinality(Occ(MkeyTag)) = 2
    /\ mkey_offset = MkeyBack
    /\ Len(MkeyLines) = 1

\* C8: within a pass the loop body runs only while 4 bytes can be read at offset
\* i, every run moves the cursor i forward by at least 1 and leaves the file
\* position at i, a pass runs its body at most file-length times, and it ends
\* only when 4 bytes can no longer be read at offset i (or, in the first pass, a
\* master key was found).  The distance of i from the container's end is the
\* variant that makes each pass finite.
C8_PassesTerminate ==
    /\ [][(pc \in {"mkeyLoop", "ckeyLoop"} /\ pc' = pc)
            => (i + TagLen <= Len(Bytes) /\ i' >= i + 1 /\ wallet'.pos = i'
                /\ iters' = iters + 1 /\ iters' <= Len(Bytes))]_vars
    /\ [][(pc \in {"mkeyLoop", "ckeyLoop"} /\ pc' # pc)
            => (i + TagLen > Len(Bytes) \/ (pc = "mkeyLoop" /\ found_mkey))]_vars

\* C8's case: both passes ran over a container with a matched "ckey" tag, the
\* second to the container's end.
C8_Witness ==
    /\ ScanDone
    /\ found_mkey
    /\ hits # <<>>
    /\ iters > 0
    /\ i + TagLen > Len(Bytes)

\* The exit of a run whose command line never passed validateOptions and never
\* showed the help text.
RejectedRun == pc = "exit" /\ ~validated /\ LinesOf(out, "Wallet Tool Usage:") = <<>>

\* C6 as stated: dumpAllKeys and removePassword are reached only by an option set
\* that passed validateOptions, and a run that did not pass it ends with one
\* "Error: " line and exit code 1, no file opened and none written.
C6_Original ==
    /\ pc \in {"dumpAllKeys", "removePassword"} => validated
    /\ RejectedRun => (exitCode = 1 /\ Len(err) = 1 /\ wallet.state = "null" /\ fs = CliFs)

\* The source file of a copy run, which a run on another path never writes.
Source == fs[WalletName]

\* A copy run on an existing source file, held apart from the destination, with
\* HOME set and a writable destination, has ended.
CopyDone ==
    /\ pc = "exit"
    /\ walletPath = WalletName
    /\ removePass
    /\ Source.exists
    /\ env.home
    /\ env.writable

\* C7 as stated: for a source of K >= 0 bytes the copy completes: the destination
\* holds the source's bytes and the run ends with the confirmation line, not with
\* an error.
C7_Original ==
    CopyDone
    => /\ fs[DestName] = [exists |-> TRUE, data |-> Source.data]
       /\ exitCode = 0
       /\ err = <<>>
       /\ out = <<Line("The new wallet.dat file with the password removed was saved to: ",
                       <<DestName>>)>>

\* The value of a hex digit, and the bytes a hex string decodes to.
DigitVal(d) == (CHOOSE k \in 1..16 : HexDigits[k] = d) - 1

RECURSIVE FromHex(_)
FromHex(str) ==
    IF Len(str) < 2 THEN <<>>
    ELSE <<16 * DigitVal(str[1]) + DigitVal(str[2])>> \o FromHex(SubSeq(str, 3, Len(str)))

\* C9: tohex returns 2 * length characters from 0-9a-f, the k-th byte as the two
\* digits 2k-1 and 2k, high nibble first; decoding the string and encoding the
\* bytes again gives the same string.
C9_TohexCanonical ==
    pc = "hexDone"
    => /\ Len(hexRes) = 2 * Len(hexIn)
       /\ \A k \in 1..Len(hexRes) : hexRes[k] \in Range(HexDigits)
       /\ \A k \in 1..Len(hexIn) :
             LET byte == IF hexIn[k] < 0 THEN hexIn[k] + 256 ELSE hexIn[k] IN
             /\ hexRes[2 * k - 1] = HexDigits[(byte \div 16) + 1]
             /\ hexRes[2 * k] = HexDigits[(byte % 16) + 1]
       /\ LET bytes == FromHex(hexRes) IN
             tohex([k \in 1..Len(bytes) |-> ToChar(bytes[k])], Len(bytes)) = hexRes

\* C9's case: a char of value >= 0x80 and a byte below 0x10, rendered "ff0a".
C9_Witness ==
    /\ pc = "hexDone"
    /\ hexIn = <<-1, 10>>
    /\ hexRes = <<"f", "f", "0", "a">>

\* C11: in the check-key pass the offset tested after a match at p is p + 4 and
\* after a mismatch at i is i + 1, and the skip loses no tag: while the pass runs
\* the matches reported so far are exactly the "ckey" offsets below the cursor,
\* and once it has ended they are all the "ckey" offsets of the container, in
\* ascending order, as a stride-1 scan finds them.
C11_SkipLosesNoTag ==
    /\ [][(pc = "ckeyLoop" /\ pc' = pc)
            => (i' = IF i \in Occ(CkeyTag) THEN i + TagLen ELSE i + 1)]_vars
    /\ [](pc = "ckeyLoop" => hits = Ascending({p \in Occ(CkeyTag) : p < i}))
    /\ []((pc \in {"ckeyDone", "exit"} /\ found_mkey) => hits = Ascending(Occ(CkeyTag)))

\* C11's case: two "ckey" tags back to back, at 52 and 56, both matched.
C11_Witness ==
    /\ ScanDone
    /\ found_mkey
    /\ Occ(CkeyTag) = {CkeyBack, CkeyBack + TagLen}
    /\ hits = <<CkeyBack, CkeyBack + TagLen>>

\* C12 as stated: no run changes the file named by --wallet: at every point of a
\* run it holds the bytes it held when the run started, also when it is the file
\* the copy is written to.
C12_Original ==
    walletPath \in Paths => fs[walletPath] = origin.fs[walletPath]

\* C13: the check-key pass is entered only from the end of the master-key pass,
\* with the cursor i and the file position back at 0 and nothing matched yet, and
\* control never returns to the master-key pass; no "encrypted ckey: " line is
\* written before the check-key pass and no "Mkey_encrypted: " line during it, so
\* the output is the "Mkey_encrypted: " line, its blank line, then only
\* "encrypted ckey: " lines; and the "ckey" tags at offsets below the matched
\* "mkey" tag are among the reported ones.
C13_PassesInOrder ==
    /\ [][(pc' = "ckeyLoop" /\ pc # "ckeyLoop")
            => (pc = "mkeyDone" /\ found_mkey /\ i' = 0 /\ wallet'.pos = 0
                /\ wallet'.state = "open" /\ hits' = <<>>)]_vars
    /\ [][pc = "ckeyLoop"
            => (pc' \in {"ckeyLoop", "ckeyDone"}
                /\ LinesOf(out', "Mkey_encrypted: ") = MkeyLines)]_vars
    /\ [](pc \in {"mkeyLoop", "mkeyDone"} => CkeyLines = <<>>)
    /\ [](CkeyLines # <<>>
            => (/\ out[1].pre = "Mkey_encrypted: "
                /\ out[2] = Line("", <<>>)
                /\ \A k \in 3..Len(out) : out[k].pre = "encrypted ckey: "))
    /\ []((pc \in {"ckeyDone", "exit"} /\ found_mkey)
            => (/\ Len(CkeyLines) = Len(hits)
                /\ \A p \in Occ(CkeyTag) : p < mkey_offset => p \in Range(hits)))

\* C13's case: a "ckey" tag at offset 52, below the matched "mkey" tag at 72, is
\* reported after the master-key line.
C13_Witness ==
    /\ ScanDone
    /\ found_mkey
    /\ mkey_offset = MkeyBack
    /\ CkeyBack \in Range(hits)
    /\ Len(out) >= 3
    /\ out[1].pre = "Mkey_encrypted: "
    /\ out[3].pre = "encrypted ckey: "

\* What a removal run on wallet path w leaves behind, told from the file system
\* and the environment o it started in and from nothing else: the exit code, the
\* two streams and the files.
RemovalFails(what, files) ==
    [exitCode |-> 1, err |-> <<Line("Error: ", what)>>, out |-> <<>>, fs |-> files]

RemovalOutcome(w, o) ==
    LET src == o.fs[w]
        opened == [o.fs EXCEPT ![DestName] = [exists |-> TRUE, data |-> <<>>]]
    IN  IF ~src.exists
        THEN RemovalFails(<<"Source wallet file does not exist: ", w>>, o.fs)
        ELSE IF ~o.env.home
        THEN RemovalFails(<<"Cannot determine home directory">>, o.fs)
        ELSE IF ~o.env.desktop /\ ~o.env.writable
        THEN RemovalFails(<<"filesystem error: cannot create directories">>, o.fs)
        ELSE IF ~o.env.writable
        THEN RemovalFails(<<"Failed to process wallet file: ",
                            "Cannot create destination file">>, o.fs)
        ELSE IF opened[w].data = <<>>
        THEN RemovalFails(<<"Failed to process wallet file: ",
                            "Error occurred while writing destination file">>, opened)
        ELSE [exitCode |-> 0,
              err |-> <<>>,
              out |-> <<Line("The new wallet.dat file with the password removed was saved to: ",
                             <<DestName>>)>>,
              fs |-> [o.fs EXCEPT ![DestName] = [exists |-> TRUE, data |-> src.data]]]

C15_ReleasedOnce ==
    /\ \A r \in Resources :
          held.released[r] <= held.acquired[r] /\ held.acquired[r] <= 1
    /\ pc \in {"mkeyLoop", "mkeyDone", "ckeyLoop", "ckeyDone"}
       => /\ wallet.state = "open"
          /\ Len(mkey_data) = MkeyLen
          /\ \A r \in Resources : held.released[r] = 0
    /\ pc \in {"ckeyLoop", "ckeyDone"}
       => Len(ckey_data) = CkeyWin /\ Len(ckey_encrypted) = CkeyLen
    /\ (pc = "exit" /\ held.acquired["wallet"] = 1)
       => /\ wallet.state = "closed"
          /\ held.released = held.acquired
          /\ held.acquired = [r \in Resources |->
                                IF found_mkey \/ r \in {"wallet", "mkey_data"} THEN 1 ELSE 0]
          /\ mkey_data = Freed /\ ckey_data = Freed /\ ckey_encrypted = Freed
    /\ (pc = "exit" /\ dumpKeys /\ ~origin.fs[WalletName].exists)
       => /\ wallet.state = "null"
          /\ held = NoneHeld
          /\ err = <<Line("Error: ", <<"Can't open file ", walletPath>>)>>
          /\ out = <<>>
          /\ exitCode = 1

\* C15's case: the early return on a container that holds a "ckey" tag and no
\* "mkey" tag: the handle and mkey_data released, the other buffers never allocated.
C15_Witness ==
    /\ ScanDone
    /\ ~found_mkey
    /\ Occ(CkeyTag) # {}
    /\ held.released["wallet"] = 1
    /\ held.released["mkey_data"] = 1
    /\ held.acquired["ckey_data"] = 0

====
